---- MODULE Spec2Model ----
(***************************************************************************)
(* build_gallery.py: the scan of media/ (build_gallery_data), the page     *)
(* assembly (render_index_html), name shortening (shorten_name), the entry *)
(* point (main), and the script embedded in the generated page (tab        *)
(* switching, lightbox viewer).                                            *)
(*                                                                         *)
(* A Python / JavaScript string is a sequence of one-character strings.    *)
(***************************************************************************)
EXTENDS Integers, Sequences, FiniteSets, TLC

VARIABLES
    mediaRoot,    \* the tree at MEDIA_DIR: [kind, entries]
    output,       \* the content of OUTPUT_HTML, or NoFile
    phase,        \* "setup" (the operator fills media/), "done" (main has run)
    exitErr,      \* the error main ended with, "none" when it returned
    calls,        \* the calls main reached, in order
    tabsOut,      \* what build_gallery_data returned in the run
    doc,          \* the document the browser shows
    loaded,       \* the embedded script has been evaluated for this load
    scriptOk,     \* the embedded script parsed and ran
    btnActive,    \* btnActive[i]: tab button i carries class "active"
    panelActive,  \* panelActive[i]: panel i carries class "active"
    storage,      \* localStorage['gallery:lastTab'], or NoValue
    viewerActive, \* #viewer carries class "active"
    frame,        \* the children of .frame, in order
    meta,         \* .meta's textContent
    lastTab,      \* history: index of the tab button clicked last, 0 if none
    lastTile,     \* history: <<panel, tile>> clicked last, <<>> if none
    lastEvent,    \* history: the last page event
    sName,        \* shorten_name: the argument
    sResult,      \* shorten_name: the returned string
    sDone         \* shorten_name has returned

buildVars == <<mediaRoot, output, phase, exitErr, calls, tabsOut>>
pageVars == <<doc, loaded, scriptOk, btnActive, panelActive, storage,
              viewerActive, frame, meta, lastTab, lastTile, lastEvent>>
shortenVars == <<sName, sResult, sDone>>
vars == <<mediaRoot, output, phase, exitErr, calls, tabsOut,
          doc, loaded, scriptOk, btnActive, panelActive, storage,
          viewerActive, frame, meta, lastTab, lastTile, lastEvent,
          sName, sResult, sDone>>

----------------------------------------------------------------------------
(* Characters and strings *)

\* The characters used, in code point order (only the order is used).
AsciiOrder ==
    <<"\"", "#", "&", "'", "-", ".", "/", "0", "1", "2", "3", "4", "5", "6",
      "7", "8", "9", ";", "<", ">",
      "A", "B", "C", "D", "E", "F", "G", "H", "I", "J", "K", "L", "M", "N",
      "O", "P", "Q", "R", "S", "T", "U", "V", "W", "X", "Y", "Z", "_",
      "a", "b", "c", "d", "e", "f", "g", "h", "i", "j", "k", "l", "m", "n",
      "o", "p", "q", "r", "s", "t", "u", "v", "w", "x", "y", "z", "U+2026">>

UpperCase ==
    <<"A", "B", "C", "D", "E", "F", "G", "H", "I", "J", "K", "L", "M", "N",
      "O", "P", "Q", "R", "S", "T", "U", "V", "W", "X", "Y", "Z">>

LowerCase ==
    <<"a", "b", "c", "d", "e", "f", "g", "h", "i", "j", "k", "l", "m", "n",
      "o", "p", "q", "r", "s", "t", "u", "v", "w", "x", "y", "z">>

\* '…' (U+2026), one character
Ellipsis == "U+2026"

Chars == {AsciiOrder[i] : i \in 1..Len(AsciiOrder)}

OrdTable == [c \in Chars |-> CHOOSE i \in 1..Len(AsciiOrder) : AsciiOrder[i] = c]

Ord(c) == OrdTable[c]

LowerTable ==
    [c \in Chars |->
        IF \E i \in 1..Len(UpperCase) : UpperCase[i] = c
        THEN LowerCase[CHOOSE i \in 1..Len(UpperCase) : UpperCase[i] = c]
        ELSE c]

\* str.lower() on one character
LowerChar(c) == LowerTable[c]

\* str.lower()
Lower(s) == [i \in 1..Len(s) |-> LowerChar(s[i])]

\* s < t, Python's comparison of str: lexicographic by code point
RECURSIVE StrLess(_, _)
StrLess(s, t) ==
    IF t = <<>> THEN FALSE
    ELSE IF s = <<>> THEN TRUE
    ELSE IF s[1] = t[1] THEN StrLess(Tail(s), Tail(t))
    ELSE Ord(s[1]) < Ord(t[1])

StrLessEq(s, t) == s = t \/ StrLess(s, t)

\* str.rfind('.'), 1-based; 0 when there is no dot
RFindDot(s) ==
    IF \E i \in 1..Len(s) : s[i] = "."
    THEN CHOOSE i \in 1..Len(s) :
             s[i] = "." /\ \A j \in (i + 1)..Len(s) : s[j] # "."
    ELSE 0

\* PurePath.suffix of a one-component path: the last dot and what follows,
\* unless that dot is the first or the last character
Suffix(name) ==
    LET p == RFindDot(name)
    IN IF 1 < p /\ p < Len(name) THEN SubSeq(name, p, Len(name)) ELSE <<>>

\* PurePath.stem of a one-component path
Stem(name) ==
    LET p == RFindDot(name)
    IN IF 1 < p /\ p < Len(name) THEN SubSeq(name, 1, p - 1) ELSE name

\* str.lstrip(".")
RECURSIVE LStripDot(_)
LStripDot(s) ==
    IF s # <<>> /\ s[1] = "." THEN LStripDot(Tail(s)) ELSE s

\* p.suffix.lower().lstrip(".")
ExtOf(name) == LStripDot(Lower(Suffix(name)))

\* html.escape(s) with quote=True, one character
EscapeChar(c) ==
    CASE c = "&" -> <<"&", "a", "m", "p", ";">>
      [] c = "<" -> <<"&", "l", "t", ";">>
      [] c = ">" -> <<"&", "g", "t", ";">>
      [] c = "\"" -> <<"&", "q", "u", "o", "t", ";">>
      [] c = "'" -> <<"&", "#", "x", "2", "7", ";">>
      [] OTHER -> <<c>>

\* html.escape(s)
RECURSIVE escape(_)
escape(s) ==
    IF s = <<>> THEN <<>> ELSE EscapeChar(s[1]) \o escape(Tail(s))

----------------------------------------------------------------------------
(* Configuration *)

IMAGE_EXTS ==
    { <<"j", "p", "g">>, <<"j", "p", "e", "g">>, <<"p", "n", "g">>,
      <<"g", "i", "f">>, <<"w", "e", "b", "p">>, <<"a", "v", "i", "f">>,
      <<"b", "m", "p">>, <<"s", "v", "g">> }

VIDEO_EXTS ==
    { <<"m", "p", "4">>, <<"w", "e", "b", "m">>, <<"o", "g", "v">>,
      <<"m", "o", "v">>, <<"m", "4", "v">> }

ALL_EXTS == IMAGE_EXTS \cup VIDEO_EXTS

\* MEDIA_DIR relative to ROOT_DIR, as rel_url writes it
MediaPrefix == <<"m", "e", "d", "i", "a">>

\* OUTPUT_HTML: state is "absent" or "written", text is the document written
\* (a rendered document, or Truncated for a file opened and never written)
Truncated == [buttons |-> <<>>, panels |-> <<>>, initial |-> <<>>]
NoFile == [state |-> "absent", text |-> Truncated]
File(text) == [state |-> "written", text |-> text]

----------------------------------------------------------------------------
(* The tree under MEDIA_DIR.  An entry is [name, kind, entries]: kind is   *)
(* "dir" or "file", entries is what iterdir() yields for a directory, in   *)
(* the order the filesystem lists it.                                      *)

Entry(n, k, es) == [name |-> n, kind |-> k, entries |-> es]

is_image(p) == ExtOf(p.name) \in IMAGE_EXTS

is_video(p) == ExtOf(p.name) \in VIDEO_EXTS

\* the extension test left out
is_media_file_any_ext(p) == p.kind = "file"

is_media_file(p) == p.kind = "file" /\ ExtOf(p.name) \in ALL_EXTS

\* path.relative_to(ROOT_DIR).as_posix() for MEDIA_DIR / sub.name / f.name
rel_url(sub, f) == MediaPrefix \o <<"/">> \o sub.name \o <<"/">> \o f.name

\* the names compared as they are
SortKeyRaw(p) == p.name

\* key=lambda p: p.name.lower()
SortKey(p) == Lower(p.name)

\* the number of leading elements of s whose key is <= k
RECURSIVE PrefixLeq(_, _)
PrefixLeq(s, k) ==
    IF s = <<>> \/ ~StrLessEq(SortKey(Head(s)), k) THEN 0
    ELSE 1 + PrefixLeq(Tail(s), k)

\* sorted(s, key=...): stable, so an element goes after the equal keys
\* that precede it in s
RECURSIVE sorted(_)
sorted(s) ==
    IF s = <<>> THEN <<>>
    ELSE LET done == sorted(SubSeq(s, 1, Len(s) - 1))
             e == s[Len(s)]
             k == PrefixLeq(done, SortKey(e))
         IN SubSeq(done, 1, k) \o <<e>> \o SubSeq(done, k + 1, Len(done))

\* files = [p for p in sorted(sub.iterdir(), key=...) if is_media_file(p)]
FilesOf(sub) == SelectSeq(sorted(sub.entries), is_media_file)

ItemOf(sub, f) ==
    [url |-> rel_url(sub, f),
     name |-> f.name,
     kind |-> IF is_image(f) THEN "image"
              ELSE IF is_video(f) THEN "video" ELSE "other"]

TabOf(sub) ==
    LET files == FilesOf(sub)
    IN [name |-> sub.name,
        slug |-> sub.name,
        items |-> [i \in 1..Len(files) |-> ItemOf(sub, files[i])]]

\* a subdirectory without media files kept
SkipSubKeepEmpty(sub) == sub.kind # "dir"

\* the two `continue`s of the loop over media_root
SkipSub(sub) == sub.kind # "dir" \/ FilesOf(sub) = <<>>

\* the loop over the sorted children of media_root
RECURSIVE TabsOf(_)
TabsOf(subs) ==
    IF subs = <<>> THEN <<>>
    ELSE IF SkipSub(Head(subs)) THEN TabsOf(Tail(subs))
    ELSE <<TabOf(Head(subs))>> \o TabsOf(Tail(subs))

MissingRoot == "FileNotFoundError: MEDIA_DIR"
NotADir == "NotADirectoryError"

\* [err, tabs]: err is "none" when the call returns tabs
build_gallery_data(media_root) ==
    IF media_root.kind = "absent"
    THEN [err |-> MissingRoot, tabs |-> <<>>]
    ELSE IF media_root.kind # "dir"
    THEN [err |-> NotADir, tabs |-> <<>>]      \* raised by iterdir()
    ELSE [err |-> "none", tabs |-> TabsOf(sorted(media_root.entries))]

----------------------------------------------------------------------------
(* shorten_name *)

\* the default of max_len
MAX_LEN == 22

\* the longest extension kept whole
EXT_KEEP == 6

\* the least number of stem characters kept
MIN_KEEP == 3

Take(s, n) == SubSeq(s, 1, IF n < Len(s) THEN n ELSE Len(s))

\* ext after `if len(ext) > 6: ext = ext[:6] + '…'`
CutExt(ext) ==
    IF Len(ext) > EXT_KEEP THEN Take(ext, EXT_KEEP) \o <<Ellipsis>> ELSE ext

\* the ellipsis not counted
KeepNoEllipsis(ext, max_len) ==
    LET keep == max_len - Len(ext)
    IN IF keep < MIN_KEEP THEN MIN_KEEP ELSE keep

\* keep = max_len - len(ext) - 1, at least 3
Keep(ext, max_len) ==
    LET keep == max_len - Len(ext) - 1
    IN IF keep < MIN_KEEP THEN MIN_KEEP ELSE keep

shorten_name(name, max_len) ==
    IF Len(name) <= max_len THEN name
    ELSE LET stem == Stem(name)
             ext == CutExt(Suffix(name))
         IN Take(stem, Keep(ext, max_len)) \o <<Ellipsis>> \o ext

----------------------------------------------------------------------------
(* render_index_html.  The document is kept as the strings inserted into   *)
(* the template, place by place; the fixed markup around them is left out. *)

\* one <button class="tab-btn">
ButtonOf(tab) ==
    [target |-> escape(tab.slug),          \* data-target
     name |-> escape(tab.name),            \* .tab-name
     count |-> Len(tab.items)]             \* .tab-count

\* the <li class="tile"> of one item: none for a kind that is neither
\* image nor video
TileOf(item) ==
    IF item.kind = "image"
    THEN <<[kind |-> "image",
            src |-> escape(item.url),      \* data-src
            label |-> escape(item.name),   \* aria-label
            img_src |-> escape(item.url),
            alt |-> escape(item.name),
            title |-> <<>>,
            caption |-> <<>>]>>
    ELSE IF item.kind = "video"
    THEN <<[kind |-> "video",
            src |-> escape(item.url),
            label |-> escape(item.name),
            img_src |-> <<>>,
            alt |-> <<>>,
            title |-> escape(item.name),
            caption |-> escape(shorten_name(item.name, MAX_LEN))]>>
    ELSE <<>>

RECURSIVE TilesOf(_)
TilesOf(items) ==
    IF items = <<>> THEN <<>>
    ELSE TileOf(Head(items)) \o TilesOf(Tail(items))

\* one <section class="panel">
PanelOf(tab) ==
    [id |-> escape(tab.slug),
     labelledby |-> <<"t", "a", "b", "-">> \o escape(tab.slug),
     tiles |-> TilesOf(tab.items)]

\* default_active = tabs[0]["slug"] if tabs else ""
default_active(tabs) == IF tabs # <<>> THEN tabs[1].slug ELSE <<>>

render_index_html(tabs) ==
    [buttons |-> [i \in 1..Len(tabs) |-> ButtonOf(tabs[i])],
     panels |-> [i \in 1..Len(tabs) |-> PanelOf(tabs[i])],
     \* const initial = localStorage.getItem(KEY) || '{default_active}';
     initial |-> default_active(tabs)]

----------------------------------------------------------------------------
(* main *)

\* a run that opens OUTPUT_HTML for writing before it scans media/
mainWriteFirst(media_root, out) ==
    LET r == build_gallery_data(media_root)
    IN IF r.err # "none"
       THEN [err |-> r.err, output |-> File(Truncated), tabs |-> <<>>,
             calls |-> <<"write_text", "build_gallery_data">>]
       ELSE [err |-> "none", output |-> File(render_index_html(r.tabs)),
             tabs |-> r.tabs,
             calls |-> <<"write_text", "build_gallery_data",
                         "render_index_html">>]

\* [err, output, tabs, calls]: how the run ends, the content of OUTPUT_HTML
\* after it, what build_gallery_data returned, the calls reached
main(media_root, out) ==
    LET r == build_gallery_data(media_root)
    IN IF r.err # "none"
       THEN [err |-> r.err, output |-> out, tabs |-> <<>>,
             calls |-> <<"build_gallery_data">>]
       ELSE [err |-> "none", output |-> File(render_index_html(r.tabs)),
             tabs |-> r.tabs,
             calls |-> <<"build_gallery_data", "render_index_html",
                         "write_text">>]

----------------------------------------------------------------------------
(* A run of the generator: the operator fills media/, then main runs once. *)

\* the most children of media/
MaxEntries == 2

\* the most children of one subdirectory
MaxFiles == 2

\* what the operator may put directly under media/
RootCandidates ==
    { Entry(<<"B", "<">>, "dir", <<>>),
      Entry(<<"a", "'">>, "dir", <<>>),
      Entry(<<"c", ".", "p", "n", "g">>, "file", <<>>) }

\* what the operator may put into a subdirectory; d.gif is a nested
\* directory that holds an image of its own
ChildCandidates ==
    { Entry(<<"B", ".", "J", "P", "G">>, "file", <<>>),
      Entry(<<"a", "&", ".", "m", "p", "4">>, "file", <<>>),
      Entry(<<"n", ".", "t", "x", "t">>, "file", <<>>),
      Entry(<<"d", ".", "g", "i", "f">>, "dir",
            <<Entry(<<"z", ".", "p", "n", "g">>, "file", <<>>)>>) }

\* index.html as an earlier run over an empty media/ left it
PriorOutput == File(render_index_html(<<>>))

\* localStorage.getItem(KEY): null when the key is not set
NoValue == [set |-> FALSE, value |-> <<>>]
Stored(v) == [set |-> TRUE, value |-> v]

PageIdle ==
    /\ doc = Truncated
    /\ loaded = FALSE
    /\ scriptOk = FALSE
    /\ btnActive = <<>>
    /\ panelActive = <<>>
    /\ storage = NoValue
    /\ viewerActive = FALSE
    /\ frame = <<>>
    /\ meta = <<>>
    /\ lastTab = 0
    /\ lastTile = <<>>
    /\ lastEvent = "none"

ShortenIdle ==
    /\ sName = <<>>
    /\ sResult = <<>>
    /\ sDone = FALSE

BuildIdle ==
    /\ mediaRoot = [kind |-> "absent", entries |-> <<>>]
    /\ output = NoFile
    /\ phase = "setup"
    /\ exitErr = "none"
    /\ calls = <<>>
    /\ tabsOut = <<>>

InsertAt(s, pos, e) == SubSeq(s, 1, pos) \o <<e>> \o SubSeq(s, pos + 1, Len(s))

HasName(es, n) == \E i \in 1..Len(es) : es[i].name = n

Init ==
    /\ mediaRoot = [kind |-> "absent", entries |-> <<>>]
    /\ output \in {NoFile, PriorOutput}
    /\ phase = "setup"
    /\ exitErr = "none"
    /\ calls = <<>>
    /\ tabsOut = <<>>
    /\ PageIdle
    /\ ShortenIdle

\* mkdir media
CreateMediaDir ==
    /\ phase = "setup"
    /\ mediaRoot.kind = "absent"
    /\ mediaRoot' = [kind |-> "dir", entries |-> <<>>]
    /\ UNCHANGED <<output, phase, exitErr, calls, tabsOut>>
    /\ UNCHANGED pageVars
    /\ UNCHANGED shortenVars

\* a regular file named media
CreateMediaFile ==
    /\ phase = "setup"
    /\ mediaRoot.kind = "absent"
    /\ mediaRoot' = [kind |-> "file", entries |-> <<>>]
    /\ UNCHANGED <<output, phase, exitErr, calls, tabsOut>>
    /\ UNCHANGED pageVars
    /\ UNCHANGED shortenVars

\* a new child of media/, listed at any place of the directory
AddEntry ==
    /\ phase = "setup"
    /\ mediaRoot.kind = "dir"
    /\ Len(mediaRoot.entries) < MaxEntries
    /\ \E e \in RootCandidates, pos \in 0..Len(mediaRoot.entries) :
          /\ ~HasName(mediaRoot.entries, e.name)
          /\ mediaRoot' = [mediaRoot EXCEPT
                              !.entries = InsertAt(@, pos, e)]
    /\ UNCHANGED <<output, phase, exitErr, calls, tabsOut>>
    /\ UNCHANGED pageVars
    /\ UNCHANGED shortenVars

\* a new child of a subdirectory of media/
AddChild ==
    /\ phase = "setup"
    /\ mediaRoot.kind = "dir"
    /\ \E i \in 1..Len(mediaRoot.entries), c \in ChildCandidates :
          /\ mediaRoot.entries[i].kind = "dir"
          /\ Len(mediaRoot.entries[i].entries) < MaxFiles
          /\ ~HasName(mediaRoot.entries[i].entries, c.name)
          /\ \E pos \in 0..Len(mediaRoot.entries[i].entries) :
                mediaRoot' = [mediaRoot EXCEPT
                                 !.entries[i].entries = InsertAt(@, pos, c)]
    /\ UNCHANGED <<output, phase, exitErr, calls, tabsOut>>
    /\ UNCHANGED pageVars
    /\ UNCHANGED shortenVars

\* python build_gallery.py
RunMain ==
    /\ phase = "setup"
    /\ \E r \in {main(mediaRoot, output)} :
          /\ exitErr' = r.err
          /\ output' = r.output
          /\ calls' = r.calls
          /\ tabsOut' = r.tabs
    /\ phase' = "done"
    /\ UNCHANGED mediaRoot
    /\ UNCHANGED pageVars
    /\ UNCHANGED shortenVars

Next ==
    \/ CreateMediaDir
    \/ CreateMediaFile
    \/ AddEntry
    \/ AddChild
    \/ RunMain

Spec == Init /\ [][Next]_vars

----------------------------------------------------------------------------
(* Properties of a run of the generator (specification Spec) *)

Ran == phase = "done"
RanOk == phase = "done" /\ exitErr = "none"

Entities ==
    { <<"&", "a", "m", "p", ";">>, <<"&", "l", "t", ";">>,
      <<"&", "g", "t", ";">>, <<"&", "q", "u", "o", "t", ";">>,
      <<"&", "#", "x", "2", "7", ";">> }

\* s holds none of < > " ' and every & of s starts a character reference
IsEscaped(s) ==
    \A i \in 1..Len(s) :
        /\ s[i] \notin {"<", ">", "\"", "'"}
        /\ s[i] = "&" =>
              \E ent \in Entities :
                  /\ i + Len(ent) - 1 <= Len(s)
                  /\ SubSeq(s, i, i + Len(ent) - 1) = ent

\* every string render_index_html inserted into the document d
InsertedStrings(d) ==
    {d.buttons[i].target : i \in 1..Len(d.buttons)}
    \cup {d.buttons[i].name : i \in 1..Len(d.buttons)}
    \cup {d.panels[i].id : i \in 1..Len(d.panels)}
    \cup {d.panels[i].labelledby : i \in 1..Len(d.panels)}
    \cup UNION { UNION { { d.panels[i].tiles[j].src,
                           d.panels[i].tiles[j].label,
                           d.panels[i].tiles[j].img_src,
                           d.panels[i].tiles[j].alt,
                           d.panels[i].tiles[j].title,
                           d.panels[i].tiles[j].caption }
                         : j \in 1..Len(d.panels[i].tiles) }
                 : i \in 1..Len(d.panels) }
    \cup {d.initial}

\* C1: every tab name, tab slug, file name and file URL that
\* render_index_html inserts into the document (tab button, panel id and
\* aria-labelledby, tile attributes, video caption, the initial-tab string
\* literal of the script) is inserted HTML-escaped: none of < > & " '
\* reaches the output raw.
C1_AllInsertedEscaped ==
    RanOk => \A s \in InsertedStrings(output.text) : IsEscaped(s)

\* C2: when MEDIA_DIR does not exist, main ends with the missing-media-root
\* error before render_index_html and the write are reached, and OUTPUT_HTML
\* is as it was before the run.
C2_MissingRootLeavesOutput ==
    [][(phase = "setup" /\ phase' = "done" /\ mediaRoot.kind = "absent")
        => /\ exitErr' = MissingRoot
           /\ output' = output
           /\ \A i \in 1..Len(calls') :
                  calls'[i] \notin {"render_index_html", "write_text"}]_vars

C2_Witness ==
    /\ Ran
    /\ mediaRoot.kind = "absent"
    /\ exitErr = MissingRoot
    /\ output = PriorOutput

\* C8: build_gallery_data fails with the missing-media-root error whenever
\* media_root is not an existing directory: when the path is absent and
\* when it is something else than a directory.
C8_NotADirectoryIsMissingRoot ==
    (Ran /\ mediaRoot.kind # "dir") => exitErr = MissingRoot

HasTab(n) == \E t \in 1..Len(tabsOut) : tabsOut[t].name = n

\* the direct children of sub that are regular files with a media extension
Qualifying(sub) ==
    { j \in 1..Len(sub.entries) :
        /\ sub.entries[j].kind = "file"
        /\ ExtOf(sub.entries[j].name) \in ALL_EXTS }

\* C6: every Tab has items; a direct subdirectory of media/ produces a Tab
\* exactly when a direct child of it is a regular file with an image or
\* video extension; files directly under media/ and files of nested
\* directories produce no Tab and no Item.
C6_TabsAreTheNonEmptyDirs ==
    RanOk =>
      /\ \A t \in 1..Len(tabsOut) : tabsOut[t].items # <<>>
      /\ \A i \in 1..Len(mediaRoot.entries) :
            LET sub == mediaRoot.entries[i]
            IN HasTab(sub.name) <=>
                 (sub.kind = "dir" /\ Qualifying(sub) # {})
      /\ \A t \in 1..Len(tabsOut) :
            \E i \in 1..Len(mediaRoot.entries) :
               LET sub == mediaRoot.entries[i]
               IN /\ sub.name = tabsOut[t].name
                  /\ sub.kind = "dir"
                  /\ Len(tabsOut[t].items) = Cardinality(Qualifying(sub))
                  /\ \A k \in 1..Len(tabsOut[t].items) :
                        \E j \in Qualifying(sub) :
                           /\ tabsOut[t].items[k].name = sub.entries[j].name
                           /\ tabsOut[t].items[k].url =
                                 MediaPrefix \o <<"/">> \o sub.name
                                   \o <<"/">> \o sub.entries[j].name

\* one subdirectory with a media file beside a nested directory became a
\* tab, another subdirectory with children but no media file did not
C6_Witness ==
    /\ RanOk
    /\ \E i, j \in 1..Len(mediaRoot.entries) :
          /\ HasTab(mediaRoot.entries[i].name)
          /\ \E c \in 1..Len(mediaRoot.entries[i].entries) :
                mediaRoot.entries[i].entries[c].kind = "dir"
          /\ mediaRoot.entries[j].kind = "dir"
          /\ mediaRoot.entries[j].entries # <<>>
          /\ ~HasTab(mediaRoot.entries[j].name)

\* C7: the document has one tab button and one panel per Tab, in tab order,
\* and each panel one tile per Item, in item order: the count on the button
\* is the number of tiles of its panel, and no Item has kind "other".
C7_OneTilePerItem ==
    RanOk =>
      LET d == output.text
      IN /\ Len(d.buttons) = Len(tabsOut)
         /\ Len(d.panels) = Len(tabsOut)
         /\ \A t \in 1..Len(tabsOut) :
               /\ d.buttons[t].target = escape(tabsOut[t].slug)
               /\ d.buttons[t].name = escape(tabsOut[t].name)
               /\ d.panels[t].id = escape(tabsOut[t].slug)
               /\ d.buttons[t].count = Len(d.panels[t].tiles)
               /\ Len(d.panels[t].tiles) = Len(tabsOut[t].items)
               /\ \A k \in 1..Len(tabsOut[t].items) :
                     /\ tabsOut[t].items[k].kind \in {"image", "video"}
                     /\ d.panels[t].tiles[k].kind = tabsOut[t].items[k].kind
                     /\ d.panels[t].tiles[k].src =
                           escape(tabsOut[t].items[k].url)

\* two tabs, one of them with an image and a video
C7_Witness ==
    /\ RanOk
    /\ Len(tabsOut) = 2
    /\ \E t \in 1..2 :
          /\ Len(output.text.panels[t].tiles) = 2
          /\ output.text.panels[t].tiles[1].kind = "video"
          /\ output.text.panels[t].tiles[2].kind = "image"

\* C9: the tabs are sorted by lower-cased directory name and the items of
\* each tab by lower-cased file name: of two neighbours the first is less
\* than or equal to the second, whatever the order of the listing.
C9_SortedCaseInsensitively ==
    RanOk =>
      /\ \A t \in 1..(Len(tabsOut) - 1) :
            StrLessEq(Lower(tabsOut[t].name), Lower(tabsOut[t + 1].name))
      /\ \A t \in 1..Len(tabsOut) :
            \A k \in 1..(Len(tabsOut[t].items) - 1) :
               StrLessEq(Lower(tabsOut[t].items[k].name),
                         Lower(tabsOut[t].items[k + 1].name))

\* the filesystem listed two directories, and two files of one of them,
\* in the reverse of the returned order
C9_Witness ==
    /\ RanOk
    /\ Len(tabsOut) = 2
    /\ mediaRoot.entries[1].name = tabsOut[2].name
    /\ \E i \in 1..2 :
          /\ Len(mediaRoot.entries[i].entries) = 2
          /\ Len(tabsOut[3 - i].items) = 2
          /\ mediaRoot.entries[i].entries[1].name = tabsOut[3 - i].items[2].name

----------------------------------------------------------------------------
(* shorten_name on file names (specification SpecShorten) *)

\* the longest run of stem characters of an argument
MaxStem == 24

\* the longest extension of an argument, the dot not counted
MaxExt == 8

Rep(c, n) == [i \in 1..n |-> c]

\* file names: an optional leading dot, a run of a, an optional ".b", and
\* an optional extension "." c^m; "a.", ".ccc" and "a.b.ccc" are among them
ShortenInputs ==
    { lead \o Rep("a", n) \o mid \o ext :
        lead \in {<<>>, <<".">>},
        n \in 0..MaxStem,
        mid \in {<<>>, <<".", "b">>},
        ext \in {<<>>} \cup {<<".">> \o Rep("c", m) : m \in 0..MaxExt} }

InitShorten ==
    /\ BuildIdle
    /\ PageIdle
    /\ sName \in ShortenInputs
    /\ sResult = <<>>
    /\ sDone = FALSE

\* short = shorten_name(item["name"])
Shorten ==
    /\ ~sDone
    /\ sResult' = shorten_name(sName, MAX_LEN)
    /\ sDone' = TRUE
    /\ UNCHANGED sName
    /\ UNCHANGED buildVars
    /\ UNCHANGED pageVars

NextShorten == Shorten

SpecShorten == InitShorten /\ [][NextShorten]_vars

\* C10: shorten_name(name, 22) returns name when it has at most 22
\* characters; otherwise a string of at most 22 characters made of a prefix
\* of the stem, one ellipsis, and the extension (cut to its first 6
\* characters plus an ellipsis when longer than 6), the prefix being at
\* least min(3, length of the stem) long.
C10_ShortenName ==
    sDone =>
      IF Len(sName) <= 22 THEN sResult = sName
      ELSE LET stem == Stem(sName)
               ext == Suffix(sName)
               shown == IF Len(ext) > 6
                        THEN SubSeq(ext, 1, 6) \o <<Ellipsis>>
                        ELSE ext
           IN /\ Len(sResult) <= 22
              /\ \E k \in 0..Len(stem) :
                    /\ k >= (IF Len(stem) < 3 THEN Len(stem) ELSE 3)
                    /\ sResult = SubSeq(stem, 1, k) \o <<Ellipsis>> \o shown

\* a name longer than 22 with an extension longer than 6 was cut to 22
C10_Witness ==
    /\ sDone
    /\ Len(sName) > 22
    /\ Len(Suffix(sName)) > 6
    /\ Len(Stem(sName)) > 14
    /\ Len(sResult) = 22
    /\ sResult # sName

----------------------------------------------------------------------------
(* The generated page in a browser (specification SpecPage): the embedded  *)
(* script runs once per load; then the visitor clicks and presses keys.    *)

\* the characters html.escape replaces
Special == {"&", "<", ">", "\"", "'"}

\* the character whose reference starts s, as a set (empty when none does)
RefAt(s) ==
    { c \in Special :
        /\ Len(EscapeChar(c)) <= Len(s)
        /\ SubSeq(s, 1, Len(EscapeChar(c))) = EscapeChar(c) }

\* the value of an attribute as the HTML parser decodes it: each of the
\* character references html.escape writes becomes its character again
RECURSIVE Unescape(_)
Unescape(s) ==
    IF s = <<>> THEN <<>>
    ELSE IF RefAt(s) # {}
    THEN LET c == CHOOSE x \in RefAt(s) : TRUE
         IN <<c>> \o Unescape(SubSeq(s, Len(EscapeChar(c)) + 1, Len(s)))
    ELSE <<s[1]>> \o Unescape(Tail(s))

\* btn.dataset.target
BtnTarget(d, i) == Unescape(d.buttons[i].target)

\* p.id
PanelId(d, i) == Unescape(d.panels[i].id)

\* the script parses: in '{default_active}' a quote ends the literal, and
\* for a name of letters and quotes what follows the literal is no
\* continuation of the expression (SyntaxError: the whole script is dropped)
ScriptParses(d) == \A i \in 1..Len(d.initial) : d.initial[i] # "'"

\* function activate(slug): the classes of the buttons and panels and the
\* stored value after the call
activate(d, slug, st) ==
    [btn |-> [i \in 1..Len(d.buttons) |-> BtnTarget(d, i) = slug],
     panel |-> [i \in 1..Len(d.panels) |-> PanelId(d, i) = slug],
     storage |-> Stored(slug)]

\* localStorage.getItem(KEY) || '{default_active}': null and '' are falsy
initial(d, st) ==
    IF st.set /\ st.value # <<>> THEN st.value ELSE d.initial

\* the element openViewer creates for a tile, none for another kind
MediaElement(kind, src, name) ==
    IF kind = "image" THEN <<[tag |-> "img", src |-> src, alt |-> name]>>
    ELSE IF kind = "video" THEN <<[tag |-> "video", src |-> src, alt |-> <<>>]>>
    ELSE <<>>

\* the frame not emptied first
openViewerAppend(fr, kind, src, name) ==
    [frame |-> fr \o MediaElement(kind, src, name),
     meta |-> name,
     active |-> TRUE]

\* function openViewer(kind, src, name): frame.innerHTML = '' first
openViewer(fr, kind, src, name) ==
    [frame |-> MediaElement(kind, src, name),
     meta |-> name,
     active |-> TRUE]

\* function closeViewer()
closeViewer(fr) == [frame |-> <<>>, active |-> FALSE]

\* trees of media/ whose pages are opened: x is a third directory name
DirX == <<"x">>
DirB == <<"B", "<">>
DirQ == <<"a", "'">>
FileJpg == Entry(<<"B", ".", "J", "P", "G">>, "file", <<>>)
FileMp4 == Entry(<<"a", "&", ".", "m", "p", "4">>, "file", <<>>)

SampleRoots ==
    { [kind |-> "dir", entries |-> <<>>],
      [kind |-> "dir", entries |-> <<Entry(DirB, "dir", <<FileJpg, FileMp4>>)>>],
      [kind |-> "dir", entries |-> <<Entry(DirX, "dir", <<FileMp4>>),
                                     Entry(DirB, "dir", <<FileJpg, FileMp4>>)>>],
      [kind |-> "dir", entries |-> <<Entry(DirB, "dir", <<FileMp4>>),
                                     Entry(DirQ, "dir", <<FileJpg>>)>>] }

\* the pages main writes for them
PageDocs == { main(r, NoFile).output.text : r \in SampleRoots }

\* what an earlier visit may have left under gallery:lastTab: nothing, the
\* empty string, the slug of a directory, or the slug of one that is gone
StoredInit ==
    {NoValue} \cup {Stored(v) : v \in {<<>>, DirB, DirX, DirQ, <<"z">>}}

AllOff(n) == [i \in 1..n |-> FALSE]

InitPage ==
    /\ BuildIdle
    /\ ShortenIdle
    /\ doc \in PageDocs
    /\ storage \in StoredInit
    /\ loaded = FALSE
    /\ scriptOk = FALSE
    /\ btnActive = AllOff(Len(doc.buttons))
    /\ panelActive = AllOff(Len(doc.panels))
    /\ viewerActive = FALSE
    /\ frame = <<>>
    /\ meta = <<>>
    /\ lastTab = 0
    /\ lastTile = <<>>
    /\ lastEvent = "none"

\* the <script> element is evaluated, after the markup is parsed
Load ==
    /\ ~loaded
    /\ loaded' = TRUE
    /\ lastEvent' = "load"
    /\ IF ~ScriptParses(doc)
       THEN /\ scriptOk' = FALSE
            /\ UNCHANGED <<btnActive, panelActive, storage>>
       ELSE /\ scriptOk' = TRUE
            /\ IF initial(doc, storage) # <<>>      \* if (initial) activate(initial)
               THEN \E a \in {activate(doc, initial(doc, storage), storage)} :
                       /\ btnActive' = a.btn
                       /\ panelActive' = a.panel
                       /\ storage' = a.storage
               ELSE UNCHANGED <<btnActive, panelActive, storage>>
    /\ UNCHANGED <<doc, viewerActive, frame, meta, lastTab, lastTile>>
    /\ UNCHANGED buildVars
    /\ UNCHANGED shortenVars

\* the visitor reloads the page: the markup as written, localStorage kept
Reload ==
    /\ loaded
    /\ loaded' = FALSE
    /\ scriptOk' = FALSE
    /\ btnActive' = AllOff(Len(doc.buttons))
    /\ panelActive' = AllOff(Len(doc.panels))
    /\ viewerActive' = FALSE
    /\ frame' = <<>>
    /\ meta' = <<>>
    /\ lastTab' = 0
    /\ lastTile' = <<>>
    /\ lastEvent' = "none"
    /\ UNCHANGED <<doc, storage>>
    /\ UNCHANGED buildVars
    /\ UNCHANGED shortenVars

\* a click on tab button i: () => activate(btn.dataset.target), when the
\* script ran and registered the listener
ClickTab ==
    /\ loaded
    /\ \E i \in 1..Len(doc.buttons) :
          /\ lastTab' = i
          /\ IF scriptOk
             THEN \E a \in {activate(doc, BtnTarget(doc, i), storage)} :
                     /\ btnActive' = a.btn
                     /\ panelActive' = a.panel
                     /\ storage' = a.storage
             ELSE UNCHANGED <<btnActive, panelActive, storage>>
    /\ lastEvent' = "tab"
    /\ UNCHANGED <<doc, loaded, scriptOk, viewerActive, frame, meta, lastTile>>
    /\ UNCHANGED buildVars
    /\ UNCHANGED shortenVars

\* a click event on tile t of panel p
ClickTile ==
    /\ loaded
    /\ \E p \in 1..Len(doc.panels) :
          /\ \E t \in 1..Len(doc.panels[p].tiles) :
                /\ lastTile' = <<p, t>>
                /\ IF scriptOk
                   THEN \E v \in {openViewer(frame,
                                     doc.panels[p].tiles[t].kind,
                                     Unescape(doc.panels[p].tiles[t].src),
                                     Unescape(doc.panels[p].tiles[t].label))} :
                           /\ frame' = v.frame
                           /\ meta' = v.meta
                           /\ viewerActive' = v.active
                   ELSE UNCHANGED <<frame, meta, viewerActive>>
    /\ lastEvent' = "tile"
    /\ UNCHANGED <<doc, loaded, scriptOk, btnActive, panelActive, storage, lastTab>>
    /\ UNCHANGED buildVars
    /\ UNCHANGED shortenVars

\* a click event on the close button, the viewer open or not
ClickClose ==
    /\ loaded
    /\ IF scriptOk
       THEN \E v \in {closeViewer(frame)} :
               /\ frame' = v.frame
               /\ viewerActive' = v.active
       ELSE UNCHANGED <<frame, viewerActive>>
    /\ lastEvent' = "close"
    /\ UNCHANGED <<doc, loaded, scriptOk, btnActive, panelActive, storage,
                   meta, lastTab, lastTile>>
    /\ UNCHANGED buildVars
    /\ UNCHANGED shortenVars

\* a click event inside #viewer, open or not: on the backdrop
\* (e.target === viewer) or on the content
ClickViewer ==
    /\ loaded
    /\ \E target \in {"viewer", "inner"} :
          IF scriptOk /\ target = "viewer"
          THEN /\ \E v \in {closeViewer(frame)} :
                     /\ frame' = v.frame
                     /\ viewerActive' = v.active
               /\ lastEvent' = "backdrop"
          ELSE /\ UNCHANGED <<frame, viewerActive>>
               /\ lastEvent' = "inner"
    /\ UNCHANGED <<doc, loaded, scriptOk, btnActive, panelActive, storage,
                   meta, lastTab, lastTile>>
    /\ UNCHANGED buildVars
    /\ UNCHANGED shortenVars

\* a key press, at any time
KeyDown ==
    /\ loaded
    /\ \E key \in {"Escape", "Enter"} :
          IF key = "Escape"
          THEN /\ IF scriptOk
                  THEN \E v \in {closeViewer(frame)} :
                          /\ frame' = v.frame
                          /\ viewerActive' = v.active
                  ELSE UNCHANGED <<frame, viewerActive>>
               /\ lastEvent' = "escape"
          ELSE /\ UNCHANGED <<frame, viewerActive>>
               /\ lastEvent' = "key"
    /\ UNCHANGED <<doc, loaded, scriptOk, btnActive, panelActive, storage,
                   meta, lastTab, lastTile>>
    /\ UNCHANGED buildVars
    /\ UNCHANGED shortenVars

NextPage ==
    \/ Load
    \/ Reload
    \/ ClickTab
    \/ ClickTile
    \/ ClickClose
    \/ ClickViewer
    \/ KeyDown

SpecPage == InitPage /\ [][NextPage]_vars

----------------------------------------------------------------------------
(* Properties of the page (specification SpecPage) *)

\* the rendered tabs whose slug is v
TabsWithSlug(d, v) == { i \in 1..Len(d.buttons) : BtnTarget(d, i) = v }

\* exactly tab i is active: its button and its panel, and no other
OnlyActive(btn, panel, i) ==
    /\ \A j \in 1..Len(btn) : btn[j] = (j = i)
    /\ \A j \in 1..Len(panel) : panel[j] = (j = i)

\* C3: on page load, for every stored value of gallery:lastTab and every
\* non-empty set of rendered tabs, the active tab is the stored slug when
\* it is the slug of a rendered tab and the first tab otherwise (nothing
\* stored, or a value that matches no rendered tab); exactly one button and
\* its panel are active after the load.
C3_LoadRestoresOrFallsBack ==
    [][(~loaded /\ loaded' /\ Len(doc.buttons) > 0)
        => LET hit == IF storage.set THEN TabsWithSlug(doc, storage.value)
                      ELSE {}
               want == IF hit # {} THEN CHOOSE i \in hit : TRUE ELSE 1
           IN OnlyActive(btnActive', panelActive', want)]_vars

\* C4: after a sequence of clicks on tab buttons with at least one click,
\* exactly one button and exactly one panel are active, those of the tab
\* clicked last, and gallery:lastTab holds that tab's slug.
C4_LastClickedTabIsActive ==
    lastTab # 0 =>
      /\ OnlyActive(btnActive, panelActive, lastTab)
      /\ storage = Stored(BtnTarget(doc, lastTab))

\* the element the viewer shows for the tile clicked last
ElementOfLastTile ==
    LET tile == doc.panels[lastTile[1]].tiles[lastTile[2]]
    IN IF tile.kind = "image"
       THEN [tag |-> "img", src |-> Unescape(tile.src),
             alt |-> Unescape(tile.label)]
       ELSE [tag |-> "video", src |-> Unescape(tile.src), alt |-> <<>>]

\* C5: in every state reachable by tile clicks, close-button clicks,
\* backdrop clicks and Escape presses, the frame of the one viewer holds at
\* most one media element; while the viewer is active it is the image or
\* video of the tile clicked last, with its URL and label; after each of
\* the three close events the viewer is inactive and the frame empty, also
\* when the viewer was closed already.
C5_ViewerShowsLastTile ==
    /\ Len(frame) <= 1
    /\ viewerActive =>
          /\ lastTile # <<>>
          /\ frame = <<ElementOfLastTile>>
          /\ meta = Unescape(doc.panels[lastTile[1]].tiles[lastTile[2]].label)
    /\ lastEvent \in {"close", "backdrop", "escape"} =>
          (~viewerActive /\ frame = <<>>)

\* the viewer plays the video of a tile whose URL and label hold an escaped
\* character, in a page with two tabs
C5_Witness ==
    /\ viewerActive
    /\ lastEvent = "tile"
    /\ Len(doc.buttons) = 2
    /\ frame = <<[tag |-> "video",
                  src |-> MediaPrefix \o <<"/">> \o DirB \o <<"/">> \o FileMp4.name,
                  alt |-> <<>>]>>
    /\ meta = FileMp4.name
====
